---- MODULE Spec2Model ----
(***************************************************************************)
(* Plugin API of the host engine (src/plugin/Plugin.h): hook types, the    *)
(* HookArgument tagged value, the plugin configuration, the per-hook       *)
(* priority registry behind EnableHook/DisableHook, and the dispatcher     *)
(* protocol MetaHookPre / hook methods / MetaHookPost.                     *)
(***************************************************************************)
EXTENDS Integers, Sequences, FiniteSets, TLC

VARIABLES
    phase,        \* where the host is in its run
    plugin,       \* the members of every Plugin object
    hooks,        \* the manager's list of (priority, plugin) per hook type
    frame,        \* the hook point the host is in, with the calls it made
    input_files,  \* the host's queue of script files still to load
    loadcall,     \* the last call of LoadBroFile() and what became of it
    requested,    \* the (plugin, object) pairs of RequestBroObjDtor()
    probe         \* a HookArgument, the build it lives in, its last access

vars == <<phase, plugin, hooks, frame, input_files, loadcall, requested, probe>>

\* What the registry and the dispatcher leave alone.
rest == <<input_files, loadcall, requested, probe>>

---------------------------------------------------------------------------
(* Bounds of the exploration.                                              *)

\* Largest number of (hook, plugin) registrations held by the registry.
MaxEnabled == 3

\* The plugins of a run.
Plugins == {"A", "B"}

\* Priorities handed to EnableHook; 0 is the default argument.
Priorities == {0, 5}

\* API versions a plugin's translation unit may have been compiled against.
ApiVersions == {2, 3}

\* Names a plugin's Configure() may return; "" is the unset name.
Names == {"", "Demo::Foo"}

\* The inputs of the hook points.
TheFile == "foo.zeek"
TheExt == "zeek"
TheFunc == "func"
TheFrame == "frame"
TheArgs == "vargs"
TheEvent == "event"
TheTime == "network_time"
TheObj == "obj"

\* The objects whose destruction plugins ask to be told of.
Objs == {TheObj, "obj2"}

\* Values a plugin may hand back from HookCallFunction.
Vals == {"v1", "v2"}

---------------------------------------------------------------------------
(* enum HookType                                                           *)

HOOK_LOAD_FILE == "HOOK_LOAD_FILE"
HOOK_CALL_FUNCTION == "HOOK_CALL_FUNCTION"
HOOK_QUEUE_EVENT == "HOOK_QUEUE_EVENT"
HOOK_DRAIN_EVENTS == "HOOK_DRAIN_EVENTS"
HOOK_UPDATE_NETWORK_TIME == "HOOK_UPDATE_NETWORK_TIME"
HOOK_BRO_OBJ_DTOR == "HOOK_BRO_OBJ_DTOR"
META_HOOK_PRE == "META_HOOK_PRE"
META_HOOK_POST == "META_HOOK_POST"

HookType == {HOOK_LOAD_FILE, HOOK_CALL_FUNCTION, HOOK_QUEUE_EVENT,
             HOOK_DRAIN_EVENTS, HOOK_UPDATE_NETWORK_TIME, HOOK_BRO_OBJ_DTOR,
             META_HOOK_PRE, META_HOOK_POST}

\* Hooks whose dispatch stops at the first plugin that claims.
FirstResponderHooks == {HOOK_LOAD_FILE, HOOK_CALL_FUNCTION, HOOK_QUEUE_EVENT}

\* Hooks delivered to every enabled plugin.
BroadcastHooks == {HOOK_DRAIN_EVENTS, HOOK_UPDATE_NETWORK_TIME, HOOK_BRO_OBJ_DTOR}

DispatchHooks == FirstResponderHooks \cup BroadcastHooks

---------------------------------------------------------------------------
(* The API version and the plugin configuration.                           *)

BRO_PLUGIN_API_VERSION == 3

\* VersionNumber(): major = minor = -1.
VersionNumber == [major |-> -1, minor |-> -1]

\* Faulty variant: the constructor is not inlined into the plugin and stamps the
\* host's API version instead of the one the plugin was compiled against.
ConfigurationHostStamp(api) ==
    [name |-> "", description |-> "", version |-> VersionNumber,
     api_version |-> BRO_PLUGIN_API_VERSION]

\* Configuration::Configuration(), inlined into the translation unit that
\* builds the plugin: api is that unit's BRO_PLUGIN_API_VERSION.
Configuration(api) ==
    [name |-> "", description |-> "", version |-> VersionNumber,
     api_version |-> api]

---------------------------------------------------------------------------
(* class HookArgument: the tag, the union payload, and the two members     *)
(* kept outside the union.                                                 *)

NullVal == "NULL"

\* Members no constructor writes: the union is left uninitialised, the pair
\* and the string are default-constructed.
Uninit == "uninit"
NoFuncResult == <<FALSE, NullVal>>

HookArgumentRaw(t, a, fr, s) ==
    [type |-> t, arg |-> a, func_result |-> fr, arg_string |-> s]

\* Faulty variant: the default constructor tags the argument as a void pointer.
HookArgumentVoidAsPointer == HookArgumentRaw("VOIDP", Uninit, NoFuncResult, "")

\* HookArgument()
HookArgumentVoid == HookArgumentRaw("VOID", Uninit, NoFuncResult, "")

\* HookArgument(bool a)
HookArgumentBool(a) == HookArgumentRaw("BOOL", a, NoFuncResult, "")

\* HookArgument(double a)
HookArgumentDouble(a) == HookArgumentRaw("DOUBLE", a, NoFuncResult, "")

\* HookArgument(const Event* a)
HookArgumentEvent(a) == HookArgumentRaw("EVENT", a, NoFuncResult, "")

\* HookArgument(const Func* a)
HookArgumentFunc(a) == HookArgumentRaw("FUNC", a, NoFuncResult, "")

\* Faulty variant: the integer lands in the boolean constructor.
HookArgumentIntAsBool(a) == HookArgumentRaw("BOOL", a # 0, NoFuncResult, "")

\* HookArgument(int a)
HookArgumentInt(a) == HookArgumentRaw("INT", a, NoFuncResult, "")

\* Faulty variant: the string is put where the union is and arg_string stays empty.
HookArgumentStringInUnion(a) == HookArgumentRaw("STRING", a, NoFuncResult, "")

\* HookArgument(const std::string& a)
HookArgumentString(a) == HookArgumentRaw("STRING", Uninit, NoFuncResult, a)

\* HookArgument(const Val* a)
HookArgumentVal(a) == HookArgumentRaw("VAL", a, NoFuncResult, "")

\* HookArgument(const val_list* a)
HookArgumentValList(a) == HookArgumentRaw("VAL_LIST", a, NoFuncResult, "")

\* HookArgument(void* p)
HookArgumentVoidPtr(p) == HookArgumentRaw("VOIDP", p, NoFuncResult, "")

\* Faulty variant: the constructor sets the tag and forgets the pair.
HookArgumentFuncResultUnset(fresult) == HookArgumentRaw("FUNC_RESULT", Uninit, NoFuncResult, "")

\* HookArgument(std::pair<bool, Val*> fresult)
HookArgumentFuncResult(fresult) == HookArgumentRaw("FUNC_RESULT", Uninit, fresult, "")

\* HookArgument(Frame* f)
HookArgumentFrame(f) == HookArgumentRaw("FRAME", f, NoFuncResult, "")

\* HookArgument::GetType()
GetType(a) == a.type

---------------------------------------------------------------------------
(* The registry: for every hook type the list of (priority, plugin)        *)
(* registrations, kept in descending priority order.                       *)

Entry(prio, p) == [prio |-> prio, plugin |-> p]

\* The hook types in the order of the enum.
HookOrder == <<HOOK_LOAD_FILE, HOOK_CALL_FUNCTION, HOOK_QUEUE_EVENT,
               HOOK_DRAIN_EVENTS, HOOK_UPDATE_NETWORK_TIME, HOOK_BRO_OBJ_DTOR,
               META_HOOK_PRE, META_HOOK_POST>>

RECURSIVE SumLen(_, _)
SumLen(reg, i) ==
    IF i > Len(HookOrder) THEN 0 ELSE Len(reg[HookOrder[i]]) + SumLen(reg, i + 1)

\* Number of registrations the registry holds.
Registrations(reg) == SumLen(reg, 1)

\* The plugins of a registry list, as a set.
PluginsOf(l) == {l[i].plugin : i \in 1..Len(l)}

\* Descending priority order of a registry list.
Descending(l) == \A i, j \in 1..Len(l) : i < j => l[i].prio >= l[j].prio

\* Faulty variant: the whole list is dropped with the plugin's registration.
WithoutAnyone(l, p) == <<>>

\* Faulty variant: a second EnableHook keeps the earlier registration.
KeepEntries(l, p) == l

\* The list without the registration of plugin p (re-enabling replaces).
WithoutPlugin(l, p) == SelectSeq(l, LAMBDA e : e.plugin # p)

InsertAt(l, k, e) == SubSeq(l, 1, k) \o <<e>> \o SubSeq(l, k + 1, Len(l))

\* Faulty variant: the new registration goes to the end of the list, unsorted.
AppendSlot(l, prio) == {Len(l)}

\* The places where a registration of priority prio keeps the list in
\* descending order; among equal priorities every place is allowed.
InsertSlots(l, prio) ==
    {k \in 0..Len(l) : Descending(InsertAt(l, k, Entry(prio, "")))}

RECURSIVE HooksFrom(_, _, _)
HooksFrom(reg, p, i) ==
    IF i > Len(HookOrder) THEN <<>>
    ELSE LET h == HookOrder[i]
             mine == SelectSeq(reg[h], LAMBDA e : e.plugin = p)
         IN [k \in 1..Len(mine) |-> <<h, mine[k].prio>>] \o HooksFrom(reg, p, i + 1)

\* Plugin::EnabledHooks(): the (hook, priority) pairs of plugin p.
EnabledHooks(p) == HooksFrom(hooks, p, 1)

---------------------------------------------------------------------------
(* Plugins and their lifecycle.                                            *)

\* Plugin::Configure() of a plugin built against API version api that
\* names itself nm.
Configure(api, nm) == [Configuration(api) EXCEPT !.name = nm]

\* Plugin::APIVersion()
APIVersion(p) == plugin[p].config.api_version

\* Plugin::Name()
Name(p) == plugin[p].config.name

\* The check made on a configured plugin: its API version is the host's and
\* its mandatory name is set.
Acceptable(cfg) == cfg.api_version = BRO_PLUGIN_API_VERSION /\ cfg.name # ""

\* The host is at no hook point.  At a hook point, list is the registry's
\* list for the hook as the host found it on entering, calls are the calls
\* made so far, returned and result the hook's result so far.
IdleFrame ==
    [pc |-> "idle", hook |-> "", args |-> <<>>, list |-> <<>>, calls |-> <<>>,
     returned |-> "void", result |-> HookArgumentVoid, claimant |-> "",
     host |-> "", owners |-> {}]

\* No LoadBroFile() call has been made.
NoLoadCall == [p |-> "", file |-> "", ret |-> "none"]

\* No HookArgument is under access; ndebug tells whether the build defines NDEBUG.
\* kind and payload tell which constructor made the argument, and from what.
IdleProbe(nd) ==
    [ndebug |-> nd, kind |-> "VOID", payload |-> "none", arg |-> HookArgumentVoid,
     acc |-> "", out |-> "none"]

\* The Plugin objects as their constructors leave them: the strings and
\* lists are empty; bool dynamic has no initializer in the class, so the
\* flag may read either way.  built and cname are what Configure() will
\* report.
Constructed ==
    [Plugins -> [status : {"constructed"},
                 built : ApiVersions,
                 cname : Names,
                 config : {Configuration(BRO_PLUGIN_API_VERSION)},
                 dynamic : BOOLEAN,
                 base_dir : {""},
                 sopath : {""},
                 components : {<<>>},
                 bif_items : {<<>>}]]

\* The host before any plugin is configured.
HostAtStart ==
    /\ phase = "startup"
    /\ hooks = [h \in HookType |-> <<>>]
    /\ frame = IdleFrame
    /\ input_files = <<>>
    /\ loadcall = NoLoadCall

\* The host with its plugins constructed; plugin A asked in its constructor
\* to be told of the destruction of TheObj, so that HOOK_BRO_OBJ_DTOR is a
\* hook point of the run.  The build has assertions compiled in and the
\* dynamic flag of every plugin reads false.
Init ==
    /\ HostAtStart
    /\ plugin \in {pl \in Constructed : \A p \in Plugins : ~pl[p].dynamic}
    /\ requested = {<<"A", TheObj>>}
    /\ probe = IdleProbe(FALSE)

\* Plugin::DoConfigure(), called by the manager before anything else.
DoConfigure(p) ==
    /\ phase = "startup"
    /\ plugin[p].status = "constructed"
    /\ LET cfg == Configure(plugin[p].built, plugin[p].cname)
       IN IF Acceptable(cfg)
          THEN /\ plugin' = [plugin EXCEPT ![p].config = cfg,
                                           ![p].status = "configured"]
               /\ phase' = phase
          ELSE /\ plugin' = [plugin EXCEPT ![p].config = cfg,
                                           ![p].status = "rejected"]
               /\ phase' = "fatal"
    /\ UNCHANGED <<hooks, frame>>
    /\ UNCHANGED rest

\* Plugin::InitPreScript() on every plugin, before scripts are parsed.
InitPreScript ==
    /\ phase = "startup"
    /\ \A p \in Plugins : plugin[p].status = "configured"
    /\ plugin' = [p \in Plugins |-> [plugin[p] EXCEPT !.status = "pre_script"]]
    /\ phase' = "scripts"
    /\ UNCHANGED <<hooks, frame>>
    /\ UNCHANGED rest

\* Plugin::InitPostScript() on every plugin, after scripts are parsed.
InitPostScript ==
    /\ phase = "scripts"
    /\ frame.pc = "idle"
    /\ plugin' = [p \in Plugins |-> [plugin[p] EXCEPT !.status = "post_script"]]
    /\ phase' = "running"
    /\ UNCHANGED <<hooks, frame>>
    /\ UNCHANGED rest

\* Plugin::Done() on every plugin at shutdown.
Done ==
    /\ phase = "running"
    /\ frame.pc = "idle"
    /\ plugin' = [p \in Plugins |-> [plugin[p] EXCEPT !.status = "done"]]
    /\ phase' = "done"
    /\ UNCHANGED <<hooks, frame>>
    /\ UNCHANGED rest

\* Code of plugin p can run: its constructor (before DoConfigure()), its
\* Configure(), its init methods and hook methods, until Done().  A plugin
\* DoConfigure() rejected is not run again.
CanAct(p) == plugin[p].status \in {"constructed", "configured", "pre_script", "post_script"}

\* The host is inside a hook point and the method it called last, whose
\* body is running, is one of plugin p.
InBody(p) ==
    /\ frame.pc \in {"pre", "hook", "post"}
    /\ frame.calls # <<>>
    /\ frame.calls[Len(frame.calls)].p = p

\* Hooks are called synchronously on the host's one thread: while the host
\* is inside a hook point the only plugin code that runs is the body of
\* the method being called.  No code runs once the host has given up.
Runs(p) == CanAct(p) /\ phase # "fatal" /\ (frame.pc = "idle" \/ InBody(p))

\* Plugin::EnableHook(hook, priority): may be called at any time.
EnableHook(p, h, prio) ==
    /\ Runs(p)
    /\ LET l == WithoutPlugin(hooks[h], p)
       IN /\ Registrations([hooks EXCEPT ![h] = l]) < MaxEnabled
          /\ \E k \in InsertSlots(l, prio) :
                hooks' = [hooks EXCEPT ![h] = InsertAt(l, k, Entry(prio, p))]
    /\ UNCHANGED <<phase, plugin, frame>>
    /\ UNCHANGED rest

\* Plugin::DisableHook(hook): may be called at any time, also for a hook
\* that is not enabled.
DisableHook(p, h) ==
    /\ Runs(p)
    /\ hooks' = [hooks EXCEPT ![h] = WithoutPlugin(hooks[h], p)]
    /\ UNCHANGED <<phase, plugin, frame>>
    /\ UNCHANGED rest

---------------------------------------------------------------------------
(* The dispatcher protocol.                                                *)

\* The HookArgumentList of a hook point, built from the hook's parameters.
ArgsOf(h) ==
    CASE h = HOOK_LOAD_FILE -> <<HookArgumentString(TheFile), HookArgumentString(TheExt)>>
      [] h = HOOK_CALL_FUNCTION ->
            <<HookArgumentFunc(TheFunc), HookArgumentFrame(TheFrame), HookArgumentValList(TheArgs)>>
      [] h = HOOK_QUEUE_EVENT -> <<HookArgumentEvent(TheEvent)>>
      [] h = HOOK_DRAIN_EVENTS -> <<>>
      [] h = HOOK_UPDATE_NETWORK_TIME -> <<HookArgumentDouble(TheTime)>>
      [] h = HOOK_BRO_OBJ_DTOR -> <<HookArgumentVoidPtr(TheObj)>>

\* The name of the virtual method a hook type activates.
MethodOf(h) ==
    CASE h = HOOK_LOAD_FILE -> "HookLoadFile"
      [] h = HOOK_CALL_FUNCTION -> "HookCallFunction"
      [] h = HOOK_QUEUE_EVENT -> "HookQueueEvent"
      [] h = HOOK_DRAIN_EVENTS -> "HookDrainEvents"
      [] h = HOOK_UPDATE_NETWORK_TIME -> "HookUpdateNetworkTime"
      [] h = HOOK_BRO_OBJ_DTOR -> "HookBroObjDtor"

\* What a plugin's hook method may return.
Returns(h) ==
    CASE h = HOOK_LOAD_FILE -> {-1, 0, 1}
      [] h = HOOK_CALL_FUNCTION -> {<<FALSE, NullVal>>} \cup {<<TRUE, v>> : v \in Vals}
      [] h = HOOK_QUEUE_EVENT -> BOOLEAN
      [] OTHER -> {"void"}

\* Faulty variant: an unhandled LoadFile reports 0 (claimed, failed) instead of -1,
\* an unhandled QueueEvent reports true.
DefaultReturnClaimed(h) ==
    CASE h = HOOK_LOAD_FILE -> 0
      [] h = HOOK_CALL_FUNCTION -> <<FALSE, NullVal>>
      [] h = HOOK_QUEUE_EVENT -> TRUE
      [] OTHER -> "void"

\* The result of a hook no plugin handled.
DefaultReturn(h) ==
    CASE h = HOOK_LOAD_FILE -> -1
      [] h = HOOK_CALL_FUNCTION -> <<FALSE, NullVal>>
      [] h = HOOK_QUEUE_EVENT -> FALSE
      [] OTHER -> "void"

\* Faulty variant: every non-zero return of HookLoadFile counts as claiming.
ClaimsNonZero(h, r) ==
    CASE h = HOOK_LOAD_FILE -> r # 0
      [] h = HOOK_CALL_FUNCTION -> r[1]
      [] h = HOOK_QUEUE_EVENT -> r
      [] OTHER -> FALSE

\* Faulty variant: only a successful load counts as claiming.
ClaimsPositive(h, r) ==
    CASE h = HOOK_LOAD_FILE -> r > 0
      [] h = HOOK_CALL_FUNCTION -> r[1]
      [] h = HOOK_QUEUE_EVENT -> r
      [] OTHER -> FALSE

\* A return value that takes the operation over and ends the dispatch.
Claims(h, r) ==
    CASE h = HOOK_LOAD_FILE -> r >= 0
      [] h = HOOK_CALL_FUNCTION -> r[1]
      [] h = HOOK_QUEUE_EVENT -> r
      [] OTHER -> FALSE

\* The HookArgument handed to MetaHookPost for a return value.
ResultArg(h, r) ==
    CASE h = HOOK_LOAD_FILE -> HookArgumentInt(r)
      [] h = HOOK_CALL_FUNCTION -> HookArgumentFuncResult(r)
      [] h = HOOK_QUEUE_EVENT -> HookArgumentBool(r)
      [] OTHER -> HookArgumentVoid

\* One call made on plugin p: the method, the hook type and argument list
\* it is about, what the method returned (hook methods), and the result
\* argument it was handed (MetaHookPost).
Call(m, p, h, args, ret, result) ==
    [m |-> m, p |-> p, hook |-> h, args |-> args, ret |-> ret, result |-> result]

\* Plugin::MetaHookPre(hook, args) called on plugin p.
MetaHookPre(p, h, args) == Call("MetaHookPre", p, h, args, "void", HookArgumentVoid)

\* Plugin::MetaHookPost(hook, args, result) called on plugin p.
MetaHookPost(p, h, args, result) == Call("MetaHookPost", p, h, args, "void", result)

\* The loop over the plugins of a hook ends after this return value.
StopsAt(h, r) == h \in FirstResponderHooks /\ Claims(h, r)

\* The hook method calls of a pass over a list l that stays as it is: the
\* plugins of l from place i on, in list order, until one claims; resp[p]
\* is what p's method returns.
RECURSIVE HookCalls(_, _, _, _, _)
HookCalls(h, args, l, i, resp) ==
    IF i > Len(l) THEN <<>>
    ELSE LET p == l[i].plugin
             c == Call(MethodOf(h), p, h, args, resp[p], HookArgumentVoid)
         IN IF StopsAt(h, resp[p])
            THEN <<c>>
            ELSE <<c>> \o HookCalls(h, args, l, i + 1, resp)

\* The places of the hook method calls whose return value claimed.
ClaimingCalls(h, l, resp, n) == {i \in 1..n : Claims(h, resp[l[i].plugin])}

\* Faulty variant: the host ignores the result and always does its own part.
HostAlwaysActs(h, claimed, r) ==
    CASE h = HOOK_LOAD_FILE -> "default_load"
      [] h = HOOK_CALL_FUNCTION -> "executed"
      [] h = HOOK_QUEUE_EVENT -> "queued"
      [] OTHER -> "none"

\* What the host does once the hook returned.
HostOutcome(h, claimed, r) ==
    CASE h = HOOK_LOAD_FILE ->
            IF ~claimed THEN "default_load" ELSE IF r = 1 THEN "plugin_loaded" ELSE "abort"
      [] h = HOOK_CALL_FUNCTION -> IF claimed THEN "value_returned" ELSE "executed"
      [] h = HOOK_QUEUE_EVENT -> IF claimed THEN "not_queued" ELSE "queued"
      [] OTHER -> "none"

\* Faulty variant: HookLoadFile is also dispatched once scripts have been parsed.
HookPointAlwaysOpen(h) == phase \in {"scripts", "running"}

\* The host reaches hook point h: hooks fire between InitPreScript() and
\* Done(), HookLoadFile only between InitPreScript() and InitPostScript().
HookPointOpen(h) ==
    /\ phase \in {"scripts", "running"}
    /\ h = HOOK_LOAD_FILE => phase = "scripts"

\* Faulty variant: the destruction of every object is announced.
NotifiedAll == Objs

\* The objects whose destruction is announced to plugins.
Notified == {r[2] : r \in requested}

\* Faulty variant: inside a hook point the dispatcher walks a copy of the list
\* taken on entering, whatever has been disabled since.
HookListAtEntry(h) == IF frame.pc = "idle" THEN hooks[h] ELSE frame.list

\* The list the dispatcher walks for hook type h: the registry's list as
\* it stands (after DisableHook() "Bro will no longer call the
\* corresponding virtual method").
HookListOf(h) == hooks[h]

\* What a pass over a list l that stays as it is yields when resp[p] is
\* what p's method returns: the hook method calls, the final result, the
\* plugin that claimed, and what the host does.
Outcome(h, args, l, resp) ==
    LET hc == HookCalls(h, args, l, 1, resp)
        cl == ClaimingCalls(h, l, resp, Len(hc))
        claimed == h \in FirstResponderHooks /\ cl # {}
        first == CHOOSE i \in cl : \A j \in cl : i <= j
        r == IF claimed THEN resp[l[first].plugin] ELSE DefaultReturn(h)
        outcome == HostOutcome(h, claimed, r)
    IN [calls |-> hc,
        returned |-> r,
        claimant |-> IF claimed THEN l[first].plugin ELSE "",
        host |-> outcome,
        owners |-> IF h = HOOK_QUEUE_EVENT
                   THEN {l[i].plugin : i \in cl}
                        \cup (IF outcome = "queued" THEN {"host"} ELSE {})
                   ELSE {}]

\* The plugins on which method m has been called in frame f.
CalledBy(f, m) == {f.calls[i].p : i \in {j \in 1..Len(f.calls) : f.calls[j].m = m}}

\* The first place of list l whose plugin is not in s; 0 if there is none.
FirstNotIn(l, s) ==
    LET places == {i \in 1..Len(l) : l[i].plugin \notin s}
    IN IF places = {} THEN 0 ELSE CHOOSE i \in places : \A j \in places : i <= j

\* The host enters hook point h with argument list args: no call made yet,
\* the result is the one of a hook nobody handled.
OpenFrame(h, args) ==
    [pc |-> "pre", hook |-> h, args |-> args, list |-> HookListOf(h), calls |-> <<>>,
     returned |-> DefaultReturn(h), result |-> ResultArg(h, DefaultReturn(h)),
     claimant |-> "", host |-> "", owners |-> {}]

\* Frame f after plugin p's hook method returned r.
AfterHookCall(f, p, r) ==
    LET c == Call(MethodOf(f.hook), p, f.hook, f.args, r, HookArgumentVoid)
    IN IF StopsAt(f.hook, r)
       THEN [f EXCEPT !.pc = "hook", !.calls = Append(@, c), !.returned = r,
                      !.result = ResultArg(f.hook, r), !.claimant = p,
                      !.owners = IF f.hook = HOOK_QUEUE_EVENT THEN {p} ELSE {}]
       ELSE [f EXCEPT !.pc = "hook", !.calls = Append(@, c)]

\* Frame f once the host acted on the result of the hook.
AfterHost(f) ==
    LET outcome == HostOutcome(f.hook, f.claimant # "", f.returned)
    IN [f EXCEPT !.pc = "returned", !.host = outcome,
                 !.owners = @ \cup (IF outcome = "queued" THEN {"host"} ELSE {})]

\* The next step of the pass at frame f, as a set of frames.  The
\* dispatcher goes down the lists of the registry as they stand when the
\* call is made, and calls a plugin once: MetaHookPre on the plugins enabled
\* for META_HOOK_PRE, then the hook method on the plugins enabled for the
\* hook until one claims, then MetaHookPost on those enabled for
\* META_HOOK_POST; with nobody left to call the host acts on the result.
NextCalls(f) ==
    LET h == f.hook
        pre == FirstNotIn(hooks[META_HOOK_PRE], CalledBy(f, "MetaHookPre"))
        l == HookListOf(h)
        hk == FirstNotIn(l, CalledBy(f, MethodOf(h)))
        post == FirstNotIn(hooks[META_HOOK_POST], CalledBy(f, "MetaHookPost"))
    IN IF f.pc = "pre" /\ pre # 0
       THEN {[f EXCEPT !.calls = Append(@, MetaHookPre(hooks[META_HOOK_PRE][pre].plugin,
                                                       h, f.args))]}
       ELSE IF f.pc \in {"pre", "hook"} /\ f.claimant = "" /\ hk # 0
       THEN {AfterHookCall(f, l[hk].plugin, r) : r \in Returns(h)}
       ELSE IF post # 0
       THEN {[f EXCEPT !.pc = "post",
                       !.calls = Append(@, MetaHookPost(hooks[META_HOOK_POST][post].plugin,
                                                        h, f.args, f.result))]}
       ELSE {AfterHost(f)}

\* The host reaches hook point h with argument list args and makes the
\* first call of the pass.
BeginDispatch(h, args) ==
    /\ HookPointOpen(h)
    /\ frame.pc = "idle"
    /\ frame' \in NextCalls(OpenFrame(h, args))
    /\ UNCHANGED <<phase, plugin, hooks>>

\* The method called last has returned: the host makes the next call of
\* the pass or, with nobody left to call, acts on the result.
ContinueDispatch ==
    /\ frame.pc \in {"pre", "hook", "post"}
    /\ frame' \in NextCalls(frame)
    /\ UNCHANGED <<phase, plugin, hooks>>
    /\ UNCHANGED rest

\* The host reaches hook point h with the inputs of this exploration; an
\* object's destruction is a hook point only if its notification was asked for.
Dispatch(h) ==
    /\ h = HOOK_BRO_OBJ_DTOR => TheObj \in Notified
    /\ BeginDispatch(h, ArgsOf(h))
    /\ UNCHANGED rest

\* The host leaves the hook point and goes on.
Return ==
    /\ frame.pc = "returned"
    /\ frame' = IdleFrame
    /\ UNCHANGED <<phase, plugin, hooks>>
    /\ UNCHANGED rest

\* Plugin p is past InitPreScript() and the host is at no hook point.
AtRest(p) == frame.pc = "idle" /\ plugin[p].status \in {"pre_script", "post_script"}

\* The host from start-up to shutdown, with hook points whose hook bodies
\* leave the registry alone: the plugins enable and disable their hooks
\* from InitPreScript() on, between hook points.
Next ==
    \/ \E p \in Plugins : DoConfigure(p)
    \/ InitPreScript
    \/ InitPostScript
    \/ Done
    \/ \E p \in Plugins, h \in HookType, prio \in Priorities :
          AtRest(p) /\ EnableHook(p, h, prio)
    \/ \E p \in Plugins, h \in HookType :
          AtRest(p) /\ p \in PluginsOf(hooks[h]) /\ DisableHook(p, h)
    \/ \E h \in DispatchHooks : Dispatch(h)
    \/ ContinueDispatch
    \/ Return

Spec == Init /\ [][Next]_vars

---------------------------------------------------------------------------
(* Loading plugins and script files.                                       *)

\* Largest number of script files waiting in the host's load queue.
MaxQueued == 2

\* The script files plugins ask the host to load.
ScriptFiles == {"a.bro", "b.bro"}

\* Where the loader finds a dynamic plugin: its base directory and its
\* shared library.
PluginDirs == {"/opt/plugins/demo"}
LibraryPaths == {"/opt/plugins/demo/lib/demo.so"}

\* Plugin::DynamicPlugin()
DynamicPlugin(p) == plugin[p].dynamic

\* Plugin::PluginDirectory()
PluginDirectory(p) == plugin[p].base_dir

\* Plugin::PluginPath()
PluginPath(p) == plugin[p].sopath

\* Plugin::SetDynamic(is_dynamic)
SetDynamic(pl, is_dynamic) == [pl EXCEPT !.dynamic = is_dynamic]

\* Plugin::SetPluginLocation(dir, sopath)
SetPluginLocation(pl, dir, so) == [pl EXCEPT !.base_dir = dir, !.sopath = so]

\* The manager calls SetDynamic() on a plugin.  The class declaration does
\* not say when or how often.
ManagerSetDynamic(p, is_dynamic) ==
    /\ phase # "fatal"
    /\ plugin' = [plugin EXCEPT ![p] = SetDynamic(@, is_dynamic)]
    /\ UNCHANGED <<phase, hooks, frame>>
    /\ UNCHANGED rest

\* The manager calls SetPluginLocation() on a plugin, a call of its own
\* beside SetDynamic().
ManagerSetPluginLocation(p, dir, so) ==
    /\ phase # "fatal"
    /\ plugin' = [plugin EXCEPT ![p] = SetPluginLocation(@, dir, so)]
    /\ UNCHANGED <<phase, hooks, frame>>
    /\ UNCHANGED rest

\* The build was compiled with NDEBUG, so that assertions are empty.
NDEBUG == probe.ndebug

\* Faulty variant: LoadBroFile() is served at any time.
LoadAlwaysAllowed(p) == TRUE

\* LoadBroFile() must not be called after InitPostScript().
LoadAllowed(p) == plugin[p].status \notin {"post_script", "done"}

\* What a call of LoadBroFile() comes to.  In time, the host queues the
\* file (true) or does not (false).  Too late, the call breaks the usage
\* contract: a build with assertions stops on it, a build without them
\* does whatever the unchecked call happens to do.
LoadOutcomes(p) ==
    IF LoadAllowed(p) THEN {"true", "false"}
    ELSE IF NDEBUG THEN {"true", "false", "fault"}
    ELSE {"fault"}

\* Plugin::LoadBroFile(file), called by plugin code at any time.
LoadBroFile(p, file, ret) ==
    /\ Runs(p)
    /\ ret \in LoadOutcomes(p)
    /\ CASE ret = "true" ->
              /\ Len(input_files) < MaxQueued
              /\ input_files' = Append(input_files, file)
              /\ phase' = phase
         [] ret = "false" ->
              /\ input_files' = input_files
              /\ phase' = phase
         [] ret = "fault" ->
              /\ input_files' = input_files
              /\ phase' = "fatal"
    /\ loadcall' = [p |-> p, file |-> file, ret |-> ret]
    /\ UNCHANGED <<plugin, hooks, frame, requested, probe>>

\* The results of LoadBroFile().
LoadResults == {"true", "false", "fault"}

\* The host in either build, with plugins whose dynamic flag reads either
\* way.
InitLife ==
    /\ HostAtStart
    /\ plugin \in Constructed
    /\ requested = {}
    /\ probe \in {IdleProbe(nd) : nd \in BOOLEAN}

\* Start-up and shutdown of the host with its plugins, without hook points.
NextLife ==
    \/ \E p \in Plugins, d \in BOOLEAN : ManagerSetDynamic(p, d)
    \/ \E p \in Plugins, dir \in PluginDirs, so \in LibraryPaths :
          ManagerSetPluginLocation(p, dir, so)
    \/ \E p \in Plugins : DoConfigure(p)
    \/ InitPreScript
    \/ InitPostScript
    \/ Done
    \/ \E p \in Plugins, file \in ScriptFiles, ret \in LoadResults : LoadBroFile(p, file, ret)

SpecLife == InitLife /\ [][NextLife]_vars

---------------------------------------------------------------------------
(* Reading a HookArgument back.                                            *)

\* The payloads arguments are constructed from.
Ints == {-1, 0, 1, 2147483647}
Events == {NullVal, TheEvent}
Funcs == {NullVal, TheFunc}
Frames == {NullVal, TheFrame}
ValLists == {NullVal, TheArgs}
VoidPtrs == {NullVal, TheObj}
ValPtrs == {NullVal} \cup Vals
Strings == {"", TheFile}
FuncResults == {<<FALSE, NullVal>>} \cup {<<TRUE, v>> : v \in Vals}

\* int to double, as the return statement of AsInt() converts: every int
\* has fewer bits than the mantissa of a double, so it becomes the double
\* of the same value.
ToDouble(n) == [double |-> n, other |-> ""]
Doubles == {ToDouble(n) : n \in Ints}

\* The double of an int that is none of Ints, and a double that is none of
\* Doubles: what bytes written as another member, or never written, read
\* as in most cases.
OtherIntAsDouble == [double |-> 0, other |-> "int"]
OtherDouble == [double |-> 0, other |-> "double"]

\* What the double member of the union can read as when another member,
\* or none, was written: any double.
WildDoubles == Doubles \cup {OtherDouble}

\* What the int member of the union can read as, converted to double, when
\* another member, or none, was written: the double of any int.
WildIntsAsDouble == Doubles \cup {OtherIntAsDouble}

\* What a pointer member of the union can read as when another member, or
\* none, was written.
WildPointers == {NullVal, "wild", TheEvent, TheFunc, TheFrame, TheArgs, TheObj} \cup Vals

\* An accessor returned v.
Value(v) == [fault |-> FALSE, val |-> v]

\* assert() failed: the process is aborted and the accessor returns nothing.
AssertionFailure == [fault |-> TRUE, val |-> "abort"]

\* assert(ok); return member;  where nd tells whether NDEBUG is defined.
\* With assertions compiled in, a failed assert aborts.  With NDEBUG the
\* assert is empty and the member is read whatever the tag: exact is its
\* content if it is the member that was written, otherwise the read gives
\* any of unwritten.
Asserted(ok, nd, exact, unwritten) ==
    IF ok THEN {Value(exact)}
    ELSE IF nd THEN {Value(v) : v \in unwritten}
    ELSE {AssertionFailure}

\* Faulty variant: AsBool() without its assert.
AsBoolUnchecked(a, nd) ==
    IF a.type = "BOOL" THEN {Value(a.arg)} ELSE {Value(v) : v \in BOOLEAN}

\* HookArgument::AsBool()
AsBool(a, nd) == Asserted(a.type = "BOOL", nd, a.arg, BOOLEAN)

\* HookArgument::AsDouble()
AsDouble(a, nd) == Asserted(a.type = "DOUBLE", nd, a.arg, WildDoubles)

\* HookArgument::AsEvent()
AsEvent(a, nd) == Asserted(a.type = "EVENT", nd, a.arg, WildPointers)

\* HookArgument::AsFunc()
AsFunc(a, nd) == Asserted(a.type = "FUNC", nd, a.arg, WildPointers)

\* HookArgument::AsInt(), declared to return double
AsInt(a, nd) ==
    IF a.type = "INT" THEN {Value(ToDouble(a.arg))}
    ELSE Asserted(FALSE, nd, Uninit, WildIntsAsDouble)

\* HookArgument::AsString(): arg_string is outside the union and always
\* constructed.
AsString(a, nd) == Asserted(a.type = "STRING", nd, a.arg_string, {a.arg_string})

\* HookArgument::AsVal()
AsVal(a, nd) == Asserted(a.type = "VAL", nd, a.arg, WildPointers)

\* HookArgument::AsFuncResult(): func_result is outside the union and
\* always constructed.
AsFuncResult(a, nd) == Asserted(a.type = "FUNC_RESULT", nd, a.func_result, {a.func_result})

\* HookArgument::AsFrame()
AsFrame(a, nd) == Asserted(a.type = "FRAME", nd, a.arg, WildPointers)

\* HookArgument::AsValList()
AsValList(a, nd) == Asserted(a.type = "VAL_LIST", nd, a.arg, WildPointers)

\* HookArgument::AsVoidPtr()
AsVoidPtr(a, nd) == Asserted(a.type = "VOIDP", nd, a.arg, WildPointers)

\* The accessors and the tag each of them asserts.
Accessors ==
    {"AsBool", "AsDouble", "AsEvent", "AsFunc", "AsInt", "AsString", "AsVal",
     "AsFuncResult", "AsFrame", "AsValList", "AsVoidPtr"}

AccessorTag(acc) ==
    CASE acc = "AsBool" -> "BOOL"
      [] acc = "AsDouble" -> "DOUBLE"
      [] acc = "AsEvent" -> "EVENT"
      [] acc = "AsFunc" -> "FUNC"
      [] acc = "AsInt" -> "INT"
      [] acc = "AsString" -> "STRING"
      [] acc = "AsVal" -> "VAL"
      [] acc = "AsFuncResult" -> "FUNC_RESULT"
      [] acc = "AsFrame" -> "FRAME"
      [] acc = "AsValList" -> "VAL_LIST"
      [] acc = "AsVoidPtr" -> "VOIDP"

\* What calling accessor acc on argument a can do.
Access(acc, a, nd) ==
    CASE acc = "AsBool" -> AsBool(a, nd)
      [] acc = "AsDouble" -> AsDouble(a, nd)
      [] acc = "AsEvent" -> AsEvent(a, nd)
      [] acc = "AsFunc" -> AsFunc(a, nd)
      [] acc = "AsInt" -> AsInt(a, nd)
      [] acc = "AsString" -> AsString(a, nd)
      [] acc = "AsVal" -> AsVal(a, nd)
      [] acc = "AsFuncResult" -> AsFuncResult(a, nd)
      [] acc = "AsFrame" -> AsFrame(a, nd)
      [] acc = "AsValList" -> AsValList(a, nd)
      [] acc = "AsVoidPtr" -> AsVoidPtr(a, nd)

\* A HookArgument is constructed: a is what the constructor for kind made
\* of payload x.
Held(kind, x, a) ==
    probe' = [probe EXCEPT !.kind = kind, !.payload = x, !.arg = a,
                           !.acc = "", !.out = "none"]

Construct ==
    /\ \/ Held("VOID", "none", HookArgumentVoid)
       \/ \E a \in BOOLEAN : Held("BOOL", a, HookArgumentBool(a))
       \/ \E a \in Doubles : Held("DOUBLE", a, HookArgumentDouble(a))
       \/ \E a \in Events : Held("EVENT", a, HookArgumentEvent(a))
       \/ \E a \in Funcs : Held("FUNC", a, HookArgumentFunc(a))
       \/ \E a \in Ints : Held("INT", a, HookArgumentInt(a))
       \/ \E a \in Strings : Held("STRING", a, HookArgumentString(a))
       \/ \E a \in ValPtrs : Held("VAL", a, HookArgumentVal(a))
       \/ \E a \in ValLists : Held("VAL_LIST", a, HookArgumentValList(a))
       \/ \E a \in VoidPtrs : Held("VOIDP", a, HookArgumentVoidPtr(a))
       \/ \E a \in FuncResults : Held("FUNC_RESULT", a, HookArgumentFuncResult(a))
       \/ \E a \in Frames : Held("FRAME", a, HookArgumentFrame(a))
    /\ UNCHANGED <<phase, plugin, hooks, frame, input_files, loadcall, requested>>

\* One accessor is called on the argument held.
Read(acc) ==
    /\ probe.acc = ""
    /\ \E o \in Access(acc, probe.arg, probe.ndebug) :
          probe' = [probe EXCEPT !.acc = acc, !.out = o]
    /\ UNCHANGED <<phase, plugin, hooks, frame, input_files, loadcall, requested>>

\* Arguments are constructed and read in a build with assertions and in
\* one with NDEBUG.
InitArg ==
    /\ HostAtStart
    /\ plugin \in {pl \in Constructed :
                     \A p \in Plugins : /\ pl[p].built = BRO_PLUGIN_API_VERSION
                                        /\ pl[p].cname # ""
                                        /\ ~pl[p].dynamic}
    /\ requested = {}
    /\ probe \in {IdleProbe(nd) : nd \in BOOLEAN}

\* The host with plugins that DoConfigure() will accept: nothing declared,
\* nothing requested yet.
InitAccepted == InitArg /\ probe = IdleProbe(FALSE)

NextArg ==
    \/ Construct
    \/ \E acc \in Accessors : Read(acc)

SpecArg == InitArg /\ [][NextArg]_vars

---------------------------------------------------------------------------
(* The BiF items a plugin declares.                                        *)

\* Largest number of BiF items a plugin declares.
MaxBifItems == 3

\* BifItem::Type, the two kinds used here.
FUNCTION == 1
EVENT == 2

\* The items plugins declare.
BifIds == {"x::y", "x::z"}
BifTypes == {FUNCTION, EVENT}

\* BifItem(id, type)
BifItem(id, type) == [id |-> id, type |-> type]

\* BifItem::GetID()
GetID(b) == b.id

\* Plugin::BifItems()
BifItems(p) == plugin[p].bif_items

\* An item goes to the end of the list.
AddAtEnd(l, b) == Append(l, b)

\* An item goes to the end of the list unless the list holds it already.
AddOnce(l, b) == IF \E i \in 1..Len(l) : l[i] = b THEN l ELSE Append(l, b)

\* bif_item_list is a std::list<BifItem>.  What AddBifItem() does with an
\* item the list already holds is not fixed by the class declaration: the
\* list either grows by it or stays as it is.
AddItem(l, b) == {AddAtEnd(l, b), AddOnce(l, b)}

\* Plugin::AddBifItem(name, type)
AddBifItem(p, name, type) ==
    /\ Len(plugin[p].bif_items) < MaxBifItems
    /\ \E l \in AddItem(plugin[p].bif_items, BifItem(name, type)) :
          plugin' = [plugin EXCEPT ![p].bif_items = l]
    /\ UNCHANGED <<phase, hooks, frame>>
    /\ UNCHANGED rest

---------------------------------------------------------------------------
(* Object destruction.                                                     *)

\* Plugin::RequestBroObjDtor(obj)
RequestBroObjDtor(p, obj) ==
    /\ Runs(p)
    /\ <<p, obj>> \notin requested
    /\ requested' = requested \cup {<<p, obj>>}
    /\ UNCHANGED <<phase, plugin, hooks, frame, input_files, loadcall, probe>>

\* The destructor of an object runs: if its notification was asked for,
\* HOOK_BRO_OBJ_DTOR is dispatched with the object as argument.
ObjDtor(obj) ==
    /\ obj \in Notified
    /\ BeginDispatch(HOOK_BRO_OBJ_DTOR, <<HookArgumentVoidPtr(obj)>>)
    /\ UNCHANGED rest

\* Plugins that ask for destruction notifications and enable the hook.
NextObj ==
    \/ \E p \in Plugins : DoConfigure(p)
    \/ InitPreScript
    \/ \E p \in Plugins, prio \in Priorities :
          AtRest(p) /\ EnableHook(p, HOOK_BRO_OBJ_DTOR, prio)
    \/ \E p \in Plugins :
          AtRest(p) /\ p \in PluginsOf(hooks[HOOK_BRO_OBJ_DTOR])
                    /\ DisableHook(p, HOOK_BRO_OBJ_DTOR)
    \/ \E p \in Plugins, obj \in Objs : RequestBroObjDtor(p, obj)
    \/ \E obj \in Objs : ObjDtor(obj)
    \/ ContinueDispatch
    \/ Return

SpecObj == InitAccepted /\ [][NextObj]_vars

---------------------------------------------------------------------------
(* Plugins that declare components and items and enable hooks.             *)

\* Largest number of components a plugin provides.
MaxComponents == 1

\* The components plugins provide.
ComponentSet == {"analyzer"}

\* The hook types enabled and disabled in this part.
SomeHooks == {HOOK_LOAD_FILE, HOOK_QUEUE_EVENT}

\* Plugin::Components()
Components(p) == plugin[p].components

\* Plugin::AddComponent(c)
AddComponent(p, c) ==
    /\ Len(plugin[p].components) < MaxComponents
    /\ plugin' = [plugin EXCEPT ![p].components = Append(@, c)]
    /\ UNCHANGED <<phase, hooks, frame>>
    /\ UNCHANGED rest

\* Both plugins enable and disable hooks from their constructors on; plugin
\* A also declares components and a BiF item.
NextHooks ==
    \/ \E p \in Plugins : DoConfigure(p)
    \/ InitPreScript
    \/ \E c \in ComponentSet : AddComponent("A", c)
    \/ AddBifItem("A", "x::y", FUNCTION)
    \/ \E p \in Plugins, h \in SomeHooks, prio \in Priorities : EnableHook(p, h, prio)
    \/ \E p \in Plugins, h \in SomeHooks : DisableHook(p, h)

SpecHooks == InitAccepted /\ [][NextHooks]_vars

---------------------------------------------------------------------------
(* Hook points whose hook bodies enable and disable hooks.                 *)

\* The hook types of this part: a first-responder hook, a broadcast hook
\* and the meta hook called before them.
PassHooks == {HOOK_QUEUE_EVENT, HOOK_DRAIN_EVENTS, META_HOOK_PRE}

\* Plugins enable and disable hooks at any time: from their constructors,
\* from their init methods, between hook points, and from the body of a
\* method the dispatcher is calling.
NextPass ==
    \/ \E p \in Plugins : DoConfigure(p)
    \/ InitPreScript
    \/ \E p \in Plugins, h \in PassHooks, prio \in Priorities : EnableHook(p, h, prio)
    \/ \E p \in Plugins, h \in PassHooks : DisableHook(p, h)
    \/ \E h \in PassHooks \cap DispatchHooks : Dispatch(h)
    \/ ContinueDispatch
    \/ Return

SpecPass == InitAccepted /\ [][NextPass]_vars

---------------------------------------------------------------------------
(* Properties of the dispatcher.                                           *)

\* The places in the call sequence of the current hook point.
CallIdx == 1..Len(frame.calls)
PreIdx == {i \in CallIdx : frame.calls[i].m = "MetaHookPre"}
PostIdx == {i \in CallIdx : frame.calls[i].m = "MetaHookPost"}
HookIdx == CallIdx \ (PreIdx \cup PostIdx)
HookIdxOf(p) == {i \in HookIdx : frame.calls[i].p = p}

\* The hook method calls of the current hook point, in call order.
MethodCalls == SelectSeq(frame.calls, LAMBDA c : c.m \notin {"MetaHookPre", "MetaHookPost"})

\* A hook point has been dispatched and the host has not yet gone on.
Dispatched(h) == frame.pc = "returned" /\ frame.hook = h

\* The result argument stands for "nobody handled hook h".
IsUnhandledResult(h, a) ==
    CASE h = HOOK_LOAD_FILE -> a.type = "INT" /\ a.arg = -1
      [] h = HOOK_CALL_FUNCTION -> a.type = "FUNC_RESULT" /\ a.func_result = <<FALSE, "NULL">>
      [] h = HOOK_QUEUE_EVENT -> a.type = "BOOL" /\ a.arg = FALSE
      [] OTHER -> a.type = "VOID"

\* The return value recorded in a hook method call takes the operation over.
ClaimingCall(c) ==
    CASE c.hook = HOOK_LOAD_FILE -> c.ret >= 0
      [] c.hook = HOOK_CALL_FUNCTION -> c.ret[1] = TRUE
      [] c.hook = HOOK_QUEUE_EVENT -> c.ret = TRUE
      [] OTHER -> FALSE

\* Every plugin enabled for the meta hook mh got exactly one call of method
\* m about hook h at this hook point, and no other plugin got one.
OncePerSubscriber(idx, mh, h) ==
    /\ \A p \in Plugins :
          Cardinality({i \in idx : frame.calls[i].p = p})
             = IF p \in PluginsOf(hooks[mh]) THEN 1 ELSE 0
    /\ \A i \in idx : frame.calls[i].hook = h

\* C1: when a hook point is reached and no plugin is enabled for its hook,
\* MetaHookPre and MetaHookPost are still invoked exactly once (on every
\* plugin subscribed to them), and MetaHookPost is handed the unhandled
\* result: -1, (false, null), false, or VOID for the hooks without a result.
C1_MetaHooksFireWithoutPlugins ==
    \A h \in DispatchHooks :
        (Dispatched(h) /\ hooks[h] = <<>>) =>
            /\ OncePerSubscriber(PreIdx, META_HOOK_PRE, h)
            /\ OncePerSubscriber(PostIdx, META_HOOK_POST, h)
            /\ HookIdx = {}
            /\ \A i \in PostIdx : IsUnhandledResult(h, frame.calls[i].result)

C1_Witness ==
    /\ frame.pc = "returned"
    /\ hooks[frame.hook] = <<>>
    /\ frame.hook \in FirstResponderHooks
    /\ PreIdx # {}
    /\ PostIdx # {}

\* C2: for two plugins enabled on the same first-responder-wins hook, the
\* one of strictly higher priority has its hook method invoked before the
\* other's, and once it returned a claiming result the other's hook method
\* is not invoked at that hook point.
C2_HigherPriorityFirst ==
    \A h \in FirstResponderHooks :
        Dispatched(h) =>
            \A i, j \in 1..Len(hooks[h]) :
                hooks[h][i].prio > hooks[h][j].prio =>
                    LET p1 == hooks[h][i].plugin
                        p2 == hooks[h][j].plugin
                    IN /\ \A b \in HookIdxOf(p2) : \E a \in HookIdxOf(p1) : a < b
                       /\ (\E a \in HookIdxOf(p1) : ClaimingCall(frame.calls[a]))
                             => HookIdxOf(p2) = {}

C2_Witness ==
    /\ frame.pc = "returned"
    /\ frame.hook \in FirstResponderHooks
    /\ Len(hooks[frame.hook]) = 2
    /\ hooks[frame.hook][1].prio > hooks[frame.hook][2].prio
    /\ Len(MethodCalls) = 2
    /\ ClaimingCall(MethodCalls[2])

\* C3: at a CallFunction hook point the hook methods run in descending
\* priority order up to the first one that returns handled = true; the
\* interpreter receives that plugin's value, and MetaHookPost is handed
\* exactly that (true, v) pair.
C3_CallFunctionFirstHandler ==
    Dispatched(HOOK_CALL_FUNCTION) =>
        LET l == hooks[HOOK_CALL_FUNCTION]
            mc == MethodCalls
            n == Len(mc)
        IN /\ Descending(l)
           /\ n <= Len(l)
           /\ \A i \in 1..n : mc[i].p = l[i].plugin /\ mc[i].m = "HookCallFunction"
           /\ \A i \in 1..(n - 1) : mc[i].ret[1] = FALSE
           /\ (n > 0 /\ mc[n].ret[1] = TRUE) =>
                 /\ frame.host = "value_returned"
                 /\ frame.returned = mc[n].ret
                 /\ frame.claimant = mc[n].p
                 /\ \A k \in PostIdx :
                       /\ frame.calls[k].result.type = "FUNC_RESULT"
                       /\ frame.calls[k].result.func_result = mc[n].ret
           /\ (n = 0 \/ mc[n].ret[1] = FALSE) =>
                 /\ n = Len(l)
                 /\ frame.host = "executed"

C3_Witness ==
    /\ Dispatched(HOOK_CALL_FUNCTION)
    /\ Len(hooks[HOOK_CALL_FUNCTION]) = 2
    /\ hooks[HOOK_CALL_FUNCTION][1].prio > hooks[HOOK_CALL_FUNCTION][2].prio
    /\ Len(MethodCalls) = 2
    /\ MethodCalls[1].ret = <<FALSE, "NULL">>
    /\ MethodCalls[2].ret = <<TRUE, "v1">>
    /\ PostIdx # {}

\* C4: at a LoadFile hook point a plugin that returns -1 passes the file on
\* to the next plugin in priority order; when a plugin returns 1 the file
\* counts as loaded by that plugin (never by one that returned -1) and the
\* host does not load it itself.
C4_LoadFileClaimedSuccess ==
    Dispatched(HOOK_LOAD_FILE) =>
        LET l == hooks[HOOK_LOAD_FILE]
            mc == MethodCalls
            n == Len(mc)
        IN /\ n <= Len(l)
           /\ \A i \in 1..n : mc[i].p = l[i].plugin /\ mc[i].m = "HookLoadFile"
           /\ \A i \in 1..n : (mc[i].ret = -1 /\ i < Len(l)) => i < n
           /\ \A i \in 1..n :
                 mc[i].ret = 1 =>
                    /\ frame.host = "plugin_loaded"
                    /\ frame.claimant = mc[i].p
                    /\ \A j \in 1..n : mc[j].ret = -1 => mc[j].p # frame.claimant
                    /\ frame.host # "default_load"

C4_Witness ==
    /\ Dispatched(HOOK_LOAD_FILE)
    /\ Len(MethodCalls) = 2
    /\ MethodCalls[1].ret = -1
    /\ MethodCalls[2].ret = 1
    /\ frame.claimant = MethodCalls[2].p
    /\ frame.host = "plugin_loaded"

\* C5: a HookLoadFile that returns 0 ends the dispatch at that plugin; the
\* host aborts the load and does not load the file itself, and this outcome
\* is its own result state, apart from success (1) and not-interested (-1).
C5_LoadFileClaimedFailure ==
    Dispatched(HOOK_LOAD_FILE) =>
        LET mc == MethodCalls
            n == Len(mc)
        IN /\ \A i \in 1..n :
                 mc[i].ret = 0 =>
                    /\ i = n
                    /\ frame.returned = 0
                    /\ frame.host = "abort"
           /\ frame.host = "abort" <=> frame.returned = 0
           /\ frame.host = "plugin_loaded" <=> frame.returned = 1
           /\ frame.host = "default_load" <=> frame.returned = -1
           /\ frame.result.type = "INT" /\ frame.result.arg = frame.returned

C5_Witness ==
    /\ Dispatched(HOOK_LOAD_FILE)
    /\ Len(hooks[HOOK_LOAD_FILE]) = 2
    /\ Len(MethodCalls) = 1
    /\ MethodCalls[1].ret = 0
    /\ frame.host = "abort"

\* C6: at a broadcast hook point (DrainEvents, UpdateNetworkTime,
\* ObjDestroy) the hook method of every plugin enabled for the hook is
\* invoked exactly once, after the MetaHookPre calls and before the
\* MetaHookPost calls, and MetaHookPost is handed a VOID result.
C6_BroadcastReachesEveryPlugin ==
    \A h \in BroadcastHooks :
        Dispatched(h) =>
            /\ \A p \in Plugins :
                  Cardinality(HookIdxOf(p)) = IF p \in PluginsOf(hooks[h]) THEN 1 ELSE 0
            /\ \A i \in HookIdx : frame.calls[i].m = MethodOf(h)
            /\ OncePerSubscriber(PreIdx, META_HOOK_PRE, h)
            /\ OncePerSubscriber(PostIdx, META_HOOK_POST, h)
            /\ \A a \in PreIdx : \A i \in HookIdx : a < i
            /\ \A i \in HookIdx : \A b \in PostIdx : i < b
            /\ \A b \in PostIdx : frame.calls[b].result.type = "VOID"

C6_Witness ==
    /\ frame.pc = "returned"
    /\ frame.hook \in BroadcastHooks
    /\ Cardinality(HookIdx) = 2
    /\ PostIdx # {}

\* The result argument a carries the return value r of hook h.
CarriesReturn(h, a, r) ==
    CASE h = HOOK_LOAD_FILE -> a.type = "INT" /\ a.arg = r
      [] h = HOOK_CALL_FUNCTION -> a.type = "FUNC_RESULT" /\ a.func_result = r
      [] h = HOOK_QUEUE_EVENT -> a.type = "BOOL" /\ a.arg = r

\* C7: at a first-responder-wins hook point every MetaHookPre subscriber is
\* called before any hook method, every MetaHookPost subscriber after the
\* last hook method, claimed or not; MetaHookPost carries the argument list
\* MetaHookPre got and the effective final result.
C7_MetaHooksBracketDispatch ==
    \A h \in FirstResponderHooks :
        Dispatched(h) =>
            LET mc == MethodCalls
                n == Len(mc)
            IN /\ OncePerSubscriber(PreIdx, META_HOOK_PRE, h)
               /\ OncePerSubscriber(PostIdx, META_HOOK_POST, h)
               /\ \A a \in PreIdx : \A i \in HookIdx \cup PostIdx : a < i
               /\ \A i \in HookIdx : \A b \in PostIdx : i < b
               /\ \A a \in PreIdx : \A b \in PostIdx :
                     frame.calls[a].args = frame.calls[b].args
               /\ \A a \in PreIdx \cup PostIdx : frame.calls[a].args = frame.args
               /\ \A b \in PostIdx : CarriesReturn(h, frame.calls[b].result, frame.returned)
               /\ IF n > 0 /\ ClaimingCall(mc[n])
                  THEN frame.returned = mc[n].ret
                  ELSE IsUnhandledResult(h, frame.result)

C7_Witness ==
    /\ frame.pc = "returned"
    /\ frame.hook = HOOK_LOAD_FILE
    /\ PreIdx # {}
    /\ PostIdx # {}
    /\ Len(MethodCalls) = 1
    /\ MethodCalls[1].ret = 1

---------------------------------------------------------------------------
(* Properties of the registry and of plugin configuration.                 *)

\* The entries for hook h in an EnabledHooks() list.
EntriesFor(eh, h) == SelectSeq(eh, LAMBDA e : e[1] = h)

\* C8: EnabledHooks() of a plugin never holds more than one entry per hook
\* type; EnableHook(H, p) leaves exactly one entry for H, with priority p,
\* also when H was enabled before with another priority; DisableHook(H)
\* leaves none.
C8_OneRegistrationPerHook ==
    /\ [](\A p \in Plugins :
            LET eh == EnabledHooks(p)
            IN \A h \in HookType : Len(EntriesFor(eh, h)) <= 1)
    /\ [][\A h \in HookType :
            \* a step of EnableHook or DisableHook on h that is not a
            \* stuttering step changes hooks[h]
            hooks'[h] # hooks[h] =>
                \A p \in Plugins :
                    LET after == EntriesFor(HooksFrom(hooks', p, 1), h)
                    IN /\ \A prio \in Priorities :
                             EnableHook(p, h, prio) => after = <<<<h, prio>>>>
                       /\ DisableHook(p, h) => after = <<>>]_vars

C8_Witness ==
    /\ EnabledHooks("A") = <<<<HOOK_CALL_FUNCTION, 5>>, <<META_HOOK_POST, 0>>>>
    /\ EnabledHooks("B") = <<<<HOOK_CALL_FUNCTION, 0>>>>

\* C9: once a plugin's HookQueueEvent returned true no further plugin is
\* offered the event and the host does not queue it; in every state the
\* event is held by at most one party, the host or a single plugin.
C9_QueueEventSingleOwner ==
    /\ Cardinality(frame.owners) <= 1
    /\ Dispatched(HOOK_QUEUE_EVENT) =>
          LET mc == MethodCalls
              n == Len(mc)
          IN /\ \A i \in 1..n :
                   mc[i].ret = TRUE =>
                      /\ i = n
                      /\ frame.host = "not_queued"
                      /\ frame.owners = {mc[i].p}
             /\ (\A i \in 1..n : mc[i].ret = FALSE) =>
                   /\ frame.host = "queued"
                   /\ frame.owners = {"host"}

C9_Witness ==
    /\ Dispatched(HOOK_QUEUE_EVENT)
    /\ Len(hooks[HOOK_QUEUE_EVENT]) = 2
    /\ Len(MethodCalls) = 1
    /\ MethodCalls[1].ret = TRUE
    /\ frame.owners = {MethodCalls[1].p}

\* The plugin was built against another API version than the host's, or
\* its Configure() leaves the mandatory name unset.
Misconfigured(p) ==
    plugin[p].built # BRO_PLUGIN_API_VERSION \/ plugin[p].cname = ""

\* C10: a plugin whose API version differs from the host's, or whose name
\* is missing, is rejected when configured and never activated: it gets no
\* InitPreScript, hook method, meta hook or InitPostScript call.
C10_MisconfiguredNeverActivated ==
    \A p \in Plugins :
        Misconfigured(p) =>
            /\ plugin[p].status \in {"constructed", "rejected"}
            /\ \A i \in CallIdx : frame.calls[i].p # p
            /\ phase \in {"startup", "fatal"}

C10_Witness ==
    /\ plugin["A"].status = "configured"
    /\ plugin["B"].status = "rejected"
    /\ plugin["B"].built # BRO_PLUGIN_API_VERSION
    /\ plugin["B"].cname # ""
    /\ phase = "fatal"

---------------------------------------------------------------------------
(* Properties of the lifecycle.                                            *)

\* The place of a status in the order of the lifecycle calls.
LifecycleRank(st) ==
    CASE st = "constructed" -> 0
      [] st = "configured" -> 1
      [] st = "pre_script" -> 2
      [] st = "post_script" -> 3
      [] st = "done" -> 4
      [] OTHER -> 5

\* C11: on every activated plugin the lifecycle calls come in the order
\* DoConfigure, InitPreScript, InitPostScript, Done, each at most once (a
\* plugin only ever moves to the next stage, or is rejected by DoConfigure),
\* and HookLoadFile is called on a plugin only after its InitPreScript and
\* before its InitPostScript.
C11_LifecycleOrder ==
    /\ [][\A p \in Plugins :
            plugin'[p].status # plugin[p].status =>
                \/ /\ plugin[p].status = "constructed"
                   /\ plugin'[p].status = "rejected"
                \/ /\ plugin'[p].status # "rejected"
                   /\ LifecycleRank(plugin'[p].status)
                        = LifecycleRank(plugin[p].status) + 1]_vars
    /\ [](\A i \in CallIdx :
            frame.calls[i].m = "HookLoadFile" =>
                plugin[frame.calls[i].p].status = "pre_script")

C11_Witness ==
    /\ Dispatched(HOOK_LOAD_FILE)
    /\ Len(MethodCalls) = 2
    /\ \A p \in Plugins : plugin[p].status = "pre_script"

\* LoadBroFile() has just been called: what it returned, and to whom.
LoadCalled == loadcall' # loadcall \/ input_files' # input_files

\* The file of the call went to the end of the load queue.
Queued == input_files' = Append(input_files, loadcall'.file)

\* The caller's InitPostScript() had returned when it called.
CalledLate == plugin[loadcall'.p].status \in {"post_script", "done"}

---------------------------------------------------------------------------
(* Properties of HookArgument.                                             *)

\* An accessor has been called on an argument whose tag is not the one it asserts.
WrongTagRead == probe.acc # "" /\ AccessorTag(probe.acc) # GetType(probe.arg)

\* C13 as stated: an accessor called on an argument of another tag always
\* ends in an assertion failure and never yields a value.  It does not
\* hold: built with NDEBUG the assert is empty and the accessor returns
\* what the member reads as.
C13_WrongTagAlwaysFaults == WrongTagRead => probe.out.fault

\* C13: in a build with assertions compiled in (NDEBUG not defined), an
\* accessor AsX called on an argument whose tag is not X ends in an
\* assertion failure and yields no value; an argument constructed from an
\* int and read with AsBool() is one such case.
C13_WrongTagFaultsUnderAssert ==
    (WrongTagRead /\ ~probe.ndebug) => probe.out = AssertionFailure

C13_Witness ==
    /\ ~probe.ndebug
    /\ probe.acc = "AsBool"
    /\ GetType(probe.arg) = "INT"
    /\ probe.out = AssertionFailure

---------------------------------------------------------------------------
(* Properties of destruction notifications.                                *)

\* The HookBroObjDtor calls of the current hook point.
DtorCalls == {i \in CallIdx : frame.calls[i].m = "HookBroObjDtor"}

\* The object a HookBroObjDtor call is about.
DtorObj(c) == c.args[1].arg

\* C17 as stated: HookBroObjDtor(obj) is called on a plugin only for
\* objects that plugin itself asked for with RequestBroObjDtor(obj).  It
\* does not hold: the hook goes to every plugin that enabled
\* HOOK_BRO_OBJ_DTOR, whoever asked for the object.
C17_OnlyOwnRequests ==
    \A i \in DtorCalls :
        <<frame.calls[i].p, DtorObj(frame.calls[i])>> \in requested

\* C17: HookBroObjDtor(obj) is called only for objects for which some
\* plugin called RequestBroObjDtor(obj) before, and only on plugins that
\* have HOOK_BRO_OBJ_DTOR enabled; it may run on a plugin for an object
\* that plugin did not ask for.
C17_OnlyRequestedObjects ==
    \A i \in DtorCalls :
        /\ \E q \in Plugins : <<q, DtorObj(frame.calls[i])>> \in requested
        /\ frame.calls[i].p \in PluginsOf(hooks[HOOK_BRO_OBJ_DTOR])
        /\ GetType(frame.calls[i].args[1]) = "VOIDP"

C17_Witness ==
    /\ Dispatched(HOOK_BRO_OBJ_DTOR)
    /\ requested = {<<"A", "obj2">>}
    /\ \E i \in DtorCalls :
          frame.calls[i].p = "B" /\ DtorObj(frame.calls[i]) = "obj2"

---------------------------------------------------------------------------
(* Properties of the registry.                                             *)

\* The entries of list l that are not plugin p's, in list order.
OthersIn(l, p) == SelectSeq(l, LAMBDA e : e.plugin # p)

\* The places of plugin p in the list of hook h.
PlacesOf(h, p) == {i \in 1..Len(hooks[h]) : hooks[h][i].plugin = p}

\* The list of every hook type holds each plugin enabled for it exactly
\* once, in descending priority order, and EnabledHooks() agrees with it.
ListsOrdered ==
    /\ \A h \in HookType : Descending(hooks[h])
    /\ \A p \in Plugins :
          LET eh == EnabledHooks(p)
          IN \A h \in HookType :
                /\ Cardinality(PlacesOf(h, p)) <= 1
                /\ Len(EntriesFor(eh, h)) = Cardinality(PlacesOf(h, p))

\* C18 as stated: the list of every hook type holds each plugin enabled for
\* it exactly once and is ordered by descending priority (ties in any
\* order), and the list of the hook being dispatched does not change
\* during the pass.  It does not hold: EnableHook() and DisableHook() may
\* be called at any time, so the body of a method called in the pass can
\* move or remove its plugin's entry while the pass is under way.
C18_ListOrderedAndStable ==
    /\ []ListsOrdered
    /\ [][(frame.pc # "idle" /\ frame'.pc # "idle") =>
             hooks'[frame.hook] = hooks[frame.hook]]_vars

\* C18: the list of every hook type holds each plugin enabled for it
\* exactly once and is ordered by descending priority (ties in any order)
\* in every state, also in the middle of a pass.  During a pass the
\* dispatcher never changes a list; a list changes only by a call of
\* EnableHook() or DisableHook() from the body of the method the pass is
\* calling, which moves or removes that plugin's entry in one list and
\* leaves the entries of the other plugins in the order they had.
C18_ListOrderedChangedByCaller ==
    /\ []ListsOrdered
    /\ [][frame' # frame => hooks' = hooks]_vars
    /\ [][\A h \in HookType :
            (frame.pc # "idle" /\ hooks'[h] # hooks[h]) =>
                \E p \in Plugins :
                    /\ InBody(p)
                    /\ OthersIn(hooks'[h], p) = OthersIn(hooks[h], p)
                    /\ \A h2 \in HookType \ {h} : hooks'[h2] = hooks[h2]]_vars

C18_Witness ==
    /\ frame.pc = "hook"
    /\ frame.hook = HOOK_DRAIN_EVENTS
    /\ Len(frame.list) = 2
    /\ frame.list[1].prio > frame.list[2].prio
    /\ Len(hooks[frame.hook]) = 2
    /\ hooks[frame.hook][1].plugin = frame.list[2].plugin
    /\ hooks[frame.hook][2].plugin = frame.list[1].plugin

\* The call a step of the dispatcher adds to the pass goes to a plugin
\* that has the hook of the called method enabled when the call is made.
CallsEnabledPlugin ==
    (frame'.calls # frame.calls /\ frame'.calls # <<>>) =>
        LET c == frame'.calls[Len(frame'.calls)]
        IN CASE c.m = "MetaHookPre" -> c.p \in PluginsOf(hooks[META_HOOK_PRE])
             [] c.m = "MetaHookPost" -> c.p \in PluginsOf(hooks[META_HOOK_POST])
             [] OTHER -> c.m = MethodOf(c.hook) /\ c.p \in PluginsOf(hooks[c.hook])

\* C19: a hook method or meta hook is only ever called on a plugin that
\* has the hook enabled when the call is made, also when the plugin
\* disabled the hook earlier in the same pass; DisableHook(H) takes the
\* plugin out of the list of H, and it gets back into it only by a call of
\* EnableHook(H), so no dispatch of H in between calls its hook method.
C19_DisabledNotCalled ==
    /\ [][CallsEnabledPlugin]_vars
    /\ [][\A h \in HookType :
            hooks'[h] # hooks[h] =>
                \A p \in Plugins :
                    /\ DisableHook(p, h) => p \notin PluginsOf(hooks'[h])
                    /\ (p \notin PluginsOf(hooks[h]) /\ p \in PluginsOf(hooks'[h]))
                          => \E prio \in Priorities : EnableHook(p, h, prio)]_vars

\* Plugin B had HOOK_QUEUE_EVENT enabled when the host entered the hook
\* point and disabled it in its MetaHookPre(): the pass went through
\* unclaimed and did not call HookQueueEvent() on B.
C19_Witness ==
    /\ Dispatched(HOOK_QUEUE_EVENT)
    /\ PluginsOf(frame.list) = {"A", "B"}
    /\ "B" \in CalledBy(frame, "MetaHookPre")
    /\ "B" \notin PluginsOf(hooks[HOOK_QUEUE_EVENT])
    /\ CalledBy(frame, "HookQueueEvent") = {"A"}
    /\ frame.claimant = ""

---------------------------------------------------------------------------
(* Properties of the default hook methods.                                 *)

\* Plugin p leaves the hook method of the current hook point as the base
\* class has it: whenever called it returns the not-handled result.
NotOverriding(p) ==
    \A i \in HookIdxOf(p) : frame.calls[i].ret = DefaultReturn(frame.hook)

\* What the plugins other than p returned at the current hook point; a
\* plugin the pass did not reach is taken not to handle.
ReturnsWithout(p) ==
    [q \in PluginsOf(hooks[frame.hook]) \ {p} |->
        IF HookIdxOf(q) = {} THEN DefaultReturn(frame.hook)
        ELSE frame.calls[CHOOSE i \in HookIdxOf(q) : TRUE].ret]

\* C20: the hook method a plugin does not override returns not handled
\* (-1 for LoadFile, (false, _) for CallFunction, false for QueueEvent),
\* and a dispatch in which such a plugin is enabled has the claiming
\* plugin, the final result and the host's action of the same dispatch
\* with that plugin not enabled.
C20_DefaultMethodIsTransparent ==
    /\ DefaultReturn(HOOK_LOAD_FILE) = -1
    /\ DefaultReturn(HOOK_CALL_FUNCTION)[1] = FALSE
    /\ DefaultReturn(HOOK_QUEUE_EVENT) = FALSE
    /\ \A h \in FirstResponderHooks :
          Dispatched(h) =>
              \A p \in PluginsOf(hooks[h]) :
                  NotOverriding(p) =>
                      LET o == Outcome(h, frame.args, WithoutPlugin(hooks[h], p),
                                       ReturnsWithout(p))
                      IN /\ o.claimant = frame.claimant
                         /\ o.returned = frame.returned
                         /\ o.host = frame.host
                         /\ o.calls = SelectSeq(MethodCalls, LAMBDA c : c.p # p)

C20_Witness ==
    /\ Dispatched(HOOK_QUEUE_EVENT)
    /\ Len(MethodCalls) = 2
    /\ MethodCalls[1].ret = FALSE
    /\ MethodCalls[2].ret = TRUE
    /\ frame.claimant = MethodCalls[2].p
    /\ frame.host = "not_queued"

---------------------------------------------------------------------------
(* Frame of EnableHook and DisableHook.                                    *)

\* The registrations of plugin q in registry reg, as EnabledHooks() lists them.
RegistrationsOf(reg, q) == HooksFrom(reg, q, 1)

\* C21: EnableHook(H, prio) and DisableHook(H) called by plugin P change
\* only P's registration for H: P's registrations for the other hook types
\* and every other plugin's registrations (hook and priority) are as
\* before, and so are the component list and the BiF item list of P.
C21_OnlyOwnRegistrationChanges ==
    [][\A p \in Plugins, h \in HookType :
          (/\ hooks' # hooks
           /\ p \in PluginsOf(hooks[h]) \cup PluginsOf(hooks'[h])
           /\ \/ \E prio \in Priorities : EnableHook(p, h, prio)
              \/ DisableHook(p, h))
          => /\ \A h2 \in HookType \ {h} : hooks'[h2] = hooks[h2]
             /\ OthersIn(hooks'[h], p) = OthersIn(hooks[h], p)
             /\ \A q \in Plugins \ {p} :
                   RegistrationsOf(hooks', q) = RegistrationsOf(hooks, q)
             /\ \A h2 \in HookType \ {h} :
                   EntriesFor(RegistrationsOf(hooks', p), h2)
                     = EntriesFor(RegistrationsOf(hooks, p), h2)
             /\ plugin'[p].components = Components(p)
             /\ plugin'[p].bif_items = BifItems(p)]_vars

C21_Witness ==
    /\ Components("A") # <<>>
    /\ BifItems("A") # <<>>
    /\ PluginsOf(hooks[HOOK_QUEUE_EVENT]) = {"A", "B"}
    /\ PluginsOf(hooks[HOOK_LOAD_FILE]) = {"A"}

\* What the accessor matching kind returns for an argument made from
\* payload x: the payload, as a double for AsInt().
RoundTrip(kind, x) == IF kind = "INT" THEN Value(ToDouble(x)) ELSE Value(x)

\* C22: every constructor tags the argument with the kind of its payload
\* (VOID for the default constructor) and GetType() returns that tag, in
\* every state from construction on, so the tag never changes; the
\* accessor of that kind returns the payload the argument was constructed
\* with (as a double of the same value for AsInt()), in either build.
C22_ConstructThenRead ==
    /\ GetType(probe.arg) = probe.kind
    /\ (probe.kind = "VOID" /\ probe.acc = "") => probe.arg = HookArgumentVoid
    /\ (probe.acc # "" /\ AccessorTag(probe.acc) = probe.kind) =>
          probe.out = RoundTrip(probe.kind, probe.payload)

C22_Witness ==
    /\ probe.ndebug
    /\ probe.kind = "INT"
    /\ probe.payload = 2147483647
    /\ probe.acc = "AsInt"
    /\ probe.out = Value(ToDouble(2147483647))
    /\ GetType(probe.arg) = "INT"

====
